---- MODULE Spec2Model ----
(***************************************************************************)
(* A model of src/novel_agent.py: the chat call, the four prompt-building  *)
(* actions and the orchestration loop NovelAgent.run.                      *)
(*                                                                         *)
(* Text is a sequence of tokens, so that joining, stripping and parsing    *)
(* are computed rather than assumed.  A line typed by the user is a        *)
(* sequence of one-character strings.  The Chinese literals of the source  *)
(* are written as ASCII tokens (the module is ASCII only).                 *)
(***************************************************************************)
EXTENDS Integers, Sequences, FiniteSets, TLC

VARIABLES run, twin, chat

vars == <<run, twin, chat>>

----------------------------------------------------------------------------
(* Bounds of the model *)

\* longest chapter-count line typed in a full run
MaxLen == 1
\* longest chapter-count line handed to the parse on its own
MaxParseLen == 3
\* largest parsed chapter count whose run is explored
MaxChapters == 5
\* longest message list handed to call_deepseek_chat on its own
MaxMsgs == 2

(* Program constants *)

\* except ValueError: chapter_count = 5
DefaultChapterCount == 5
\* target_word_count: int = 2000
DefaultTargetWordCount == 2000

----------------------------------------------------------------------------
(* Text *)

EmptyText == <<>>
\* a local that has not been assigned yet
Unset == <<"<unset>">>
\* the literal "\n"
Newline == <<"\n">>
\* the literal "(none)" placeholder of the first chapter
NoSummaryPlaceholder == <<"(none)">>

\* sep.join(list)
RECURSIVE Join(_, _)
Join(sep, list) ==
    IF list = <<>> THEN EmptyText
    ELSE IF Len(list) = 1 THEN list[1]
    ELSE list[1] \o sep \o Join(sep, Tail(list))

----------------------------------------------------------------------------
(* int(chapter_count_str.strip()) *)

\* the characters a line handed to the parse is made of
Alphabet == {"0", "3", "-", "+", " ", "_", ".", "a"}
\* the characters a line typed in a full run is made of
RunAlphabet == {"0", "3", "-", " ", "a"}
Digits == {"0", "1", "2", "3", "4", "5", "6", "7", "8", "9"}
Whitespace == {" "}

DigitValue(c) ==
    CASE c = "0" -> 0 [] c = "1" -> 1 [] c = "2" -> 2 [] c = "3" -> 3
      [] c = "4" -> 4 [] c = "5" -> 5 [] c = "6" -> 6 [] c = "7" -> 7
      [] c = "8" -> 8 [] c = "9" -> 9

\* str.strip(): leading and trailing whitespace removed
RECURSIVE Strip(_)
Strip(s) ==
    IF s = <<>> THEN s
    ELSE IF Head(s) \in Whitespace THEN Strip(Tail(s))
    ELSE IF s[Len(s)] \in Whitespace THEN Strip(SubSeq(s, 1, Len(s) - 1))
    ELSE s

\* the digits of an int literal after its sign: digits, with single
\* underscores between digits
IntBodyOk(b) ==
    /\ b # <<>>
    /\ \A k \in 1..Len(b) :
          \/ b[k] \in Digits
          \/ /\ b[k] = "_"
             /\ 1 < k /\ k < Len(b)
             /\ b[k - 1] \in Digits /\ b[k + 1] \in Digits

RECURSIVE IntBodyValue(_, _)
IntBodyValue(b, acc) ==
    IF b = <<>> THEN acc
    ELSE IF Head(b) = "_" THEN IntBodyValue(Tail(b), acc)
    ELSE IntBodyValue(Tail(b), 10 * acc + DigitValue(Head(b)))

\* int(s): [ok |-> FALSE] stands for ValueError
ParseInt(s) ==
    LET t == Strip(s)
        signed == t # <<>> /\ Head(t) \in {"+", "-"}
        body == IF signed THEN Tail(t) ELSE t
    IN  IF IntBodyOk(body)
        THEN [ok |-> TRUE,
              value |-> IF signed /\ Head(t) = "-"
                        THEN 0 - IntBodyValue(body, 0)
                        ELSE IntBodyValue(body, 0)]
        ELSE [ok |-> FALSE, value |-> 0]

\* a parse whose except branch leaves the count at zero
ParseChapterCount_NoDefault(chapter_count_str) ==
    LET p == ParseInt(Strip(chapter_count_str))
    IN  IF p.ok THEN p.value ELSE 0

\* try: chapter_count = int(chapter_count_str.strip())
\* except ValueError: chapter_count = 5
ParseChapterCount(chapter_count_str) ==
    LET p == ParseInt(Strip(chapter_count_str))
    IN  IF p.ok THEN p.value ELSE DefaultChapterCount

----------------------------------------------------------------------------
(* call_deepseek_chat *)

\* dict.get(key, default)
Get(d, key, default) == IF key \in DOMAIN d THEN d[key] ELSE default

\* one message converted to its LangChain schema object
ChatMessage(msg) ==
    IF Get(msg, "role", "None") = "system"
    THEN [type |-> "SystemMessage", content |-> Get(msg, "content", EmptyText)]
    ELSE [type |-> "HumanMessage", content |-> Get(msg, "content", EmptyText)]

\* converted messages inserted at the front instead of appended
ChatMessages_Reversed(msgs) ==
    [k \in 1..Len(msgs) |-> ChatMessage(msgs[Len(msgs) + 1 - k])]

\* chat_messages: the converted messages, appended in order
ChatMessages(msgs) == [k \in 1..Len(msgs) |-> ChatMessage(msgs[k])]

\* getattr(response, "content", "")
ResponseContent(response) == Get(response, "content", EmptyText)

----------------------------------------------------------------------------
(* The four actions: each builds a system/user message pair *)

\* main_characters of NovelAgent.run
MainCharacters == [protagonist |-> "default protagonist",
                   supportingA |-> "extend freely"]

\* GenerateOutline.run, up to its call of call_deepseek_chat
GenerateOutline_run(title, theme, main_characters, plot_summary, chapter_count) ==
    << [role |-> "system", content |-> [template |-> "outline_system"]],
       [role |-> "user",
        content |-> [template |-> "outline_user",
                     title |-> title,
                     theme |-> theme,
                     main_characters |-> main_characters,
                     plot_summary |-> plot_summary,
                     chapter_count |-> chapter_count]] >>

\* WriteChapter.run, up to its call of call_deepseek_chat
WriteChapter_run(outline, prev_summaries, chapter_title, chapter_index, target_word_count) ==
    << [role |-> "system", content |-> [template |-> "write_system"]],
       [role |-> "user",
        content |-> [template |-> "write_user",
                     outline |-> outline,
                     prev_summaries |-> prev_summaries,
                     chapter_index |-> chapter_index,
                     chapter_title |-> chapter_title,
                     target_word_count |-> target_word_count]] >>

\* ReviewChapter.run, up to its call of call_deepseek_chat
ReviewChapter_run(chapter_text) ==
    << [role |-> "system", content |-> [template |-> "review_system"]],
       [role |-> "user",
        content |-> [template |-> "review_user", chapter_text |-> chapter_text]] >>

\* SummarizeChapter.run, up to its call of call_deepseek_chat
SummarizeChapter_run(chapter_text) ==
    << [role |-> "system", content |-> [template |-> "summarize_system"]],
       [role |-> "user",
        content |-> [template |-> "summarize_user", chapter_text |-> chapter_text]] >>

----------------------------------------------------------------------------
(* NovelAgent.run as steps between its awaits.  A run is a record of the   *)
(* locals of NovelAgent.run, the position pc, the calls issued so far and  *)
(* what was printed (section by section; of the bodies only the final      *)
(* novel is kept).                                                         *)

InitRun ==
    [pc |-> "start",
     title |-> Unset, theme |-> Unset, plot_summary |-> Unset,
     chapter_count_str |-> Unset, chapter_count |-> 0,
     outline |-> Unset,
     all_chapters |-> <<>>, all_summaries |-> <<>>,
     i |-> 0,
     chapter_text |-> Unset, review_text |-> Unset, summary_text |-> Unset,
     full_novel |-> Unset,
     calls |-> <<>>,
     stdout |-> <<>>]

\* llm(chat_messages): the request leaves and the run waits for its answer
IssueCall(s, kind, index, msgs) ==
    [s EXCEPT !.pc = kind,
              !.calls = Append(@, [kind |-> kind, index |-> index,
                                   request |-> ChatMessages(msgs),
                                   status |-> "pending",
                                   returned |-> Unset])]

\* a review's text is kept nowhere but in review_text
NotKept == <<"<not kept>">>

\* the answer to the call in flight arrives: llm(chat_messages) returns and
\* call_deepseek_chat returns its content
Answered(s, resp) ==
    LET n == Len(s.calls)
    IN  [s EXCEPT !.calls[n].status = "returned",
                  !.calls[n].returned = IF s.calls[n].kind = "review"
                                        THEN NotKept
                                        ELSE ResponseContent(resp)]

\* print(...)
Print_(s, section) == [s EXCEPT !.stdout = Append(@, section)]

\* f"{title} - chapter {i}"
ChapterTitle(title, i) == [title |-> title, index |-> i]

\* a prev_summary that carries only the latest summary
PrevSummary_LastOnly(i, all_summaries) ==
    IF i = 1 THEN NoSummaryPlaceholder ELSE all_summaries[Len(all_summaries)]

\* prev_summary = "(none)" if i == 1 else "\n".join(all_summaries)
PrevSummary(i, all_summaries) ==
    IF i = 1 THEN NoSummaryPlaceholder ELSE Join(Newline, all_summaries)

\* the chapters with every repeated text dropped
RECURSIVE Deduplicated(_, _)
Deduplicated(list, seen) ==
    IF list = <<>> THEN <<>>
    ELSE IF Head(list) \in seen THEN Deduplicated(Tail(list), seen)
    ELSE <<Head(list)>> \o Deduplicated(Tail(list), seen \cup {Head(list)})

\* a full_novel assembled from the distinct chapter texts only
FullNovel_Deduplicated(all_chapters) ==
    Join(Newline, Deduplicated(all_chapters, {}))

\* full_novel = "\n".join(all_chapters)
FullNovel(all_chapters) == Join(Newline, all_chapters)

\* a range that stops one short: range(1, chapter_count)
InRange_OneShort(i, chapter_count) == 1 <= i /\ i < chapter_count

\* i in range(1, chapter_count + 1)
InRange(i, chapter_count) == 1 <= i /\ i <= chapter_count

\* the head of the for loop with its variable at i: one more chapter is
\* begun (up to the await of write_action.run), or the loop is left and the
\* novel is assembled and printed
LoopHead(s, i) ==
    IF InRange(i, s.chapter_count)
    THEN IssueCall(Print_([s EXCEPT !.i = i], [section |-> "writing", index |-> i]),
                   "write", i,
                   WriteChapter_run(s.outline,
                                    PrevSummary(i, s.all_summaries),
                                    ChapterTitle(s.title, i),
                                    i,
                                    DefaultTargetWordCount))
    ELSE LET full_novel == FullNovel(s.all_chapters)
         IN  [s EXCEPT !.pc = "done",
                       !.full_novel = full_novel,
                       !.stdout = @ \o << [section |-> "all_done"],
                                          [section |-> "novel", text |-> full_novel],
                                          [section |-> "end"] >>]

\* the four input() lines, the parse of the chapter count, and the call of
\* outline_action.run up to its await
Begin(s, title, theme, plot_summary, chapter_count_str) ==
    LET chapter_count == ParseChapterCount(chapter_count_str)
    IN  IssueCall(Print_([s EXCEPT !.title = title,
                                   !.theme = theme,
                                   !.plot_summary = plot_summary,
                                   !.chapter_count_str = chapter_count_str,
                                   !.chapter_count = chapter_count],
                         [section |-> "generating_outline"]),
                  "outline", 0,
                  GenerateOutline_run(title, theme, MainCharacters,
                                      plot_summary, chapter_count))

\* outline = await ...; print; the lists are created; the loop is entered
AfterOutline(s, resp) ==
    LET outline == ResponseContent(resp)
    IN  LoopHead(Print_([Answered(s, resp) EXCEPT !.outline = outline,
                                                   !.all_chapters = <<>>,
                                                   !.all_summaries = <<>>],
                        [section |-> "outline"]),
                 1)

\* the review and the summary requested together, neither awaited first
AfterWrite_Concurrent(s, resp) ==
    LET chapter_text == ResponseContent(resp)
    IN  IssueCall(IssueCall([Answered(s, resp) EXCEPT !.chapter_text = chapter_text],
                            "summarize", s.i, SummarizeChapter_run(chapter_text)),
                  "review", s.i, ReviewChapter_run(chapter_text))

\* the draft assigned to outline as well as to chapter_text
AfterWrite_OverwritesOutline(s, resp) ==
    LET chapter_text == ResponseContent(resp)
    IN  IssueCall(Print_(Print_([Answered(s, resp) EXCEPT !.chapter_text = chapter_text,
                                                           !.outline = chapter_text],
                                [section |-> "draft", index |-> s.i]),
                         [section |-> "reviewing"]),
                  "review", s.i, ReviewChapter_run(chapter_text))

\* chapter_text = await ...; print; review_action.run up to its await
AfterWrite(s, resp) ==
    LET chapter_text == ResponseContent(resp)
    IN  IssueCall(Print_(Print_([Answered(s, resp) EXCEPT !.chapter_text = chapter_text],
                                [section |-> "draft", index |-> s.i]),
                         [section |-> "reviewing"]),
                  "review", s.i, ReviewChapter_run(chapter_text))

\* review_text = await ...; print; summarize_action.run up to its await
AfterReview(s, resp) ==
    LET review_text == ResponseContent(resp)
    IN  IssueCall(Print_([Answered(s, resp) EXCEPT !.review_text = review_text],
                         [section |-> "review"]),
                  "summarize", s.i, SummarizeChapter_run(s.chapter_text))

\* the review appended to the summary that is carried forward
AfterSummarize_WithReview(s, resp) ==
    LET summary_text == ResponseContent(resp) \o s.review_text
    IN  LoopHead(Print_([Answered(s, resp) EXCEPT
                             !.summary_text = summary_text,
                             !.all_chapters = Append(@, s.chapter_text),
                             !.all_summaries = Append(@, summary_text)],
                        [section |-> "summary"]),
                 s.i + 1)

\* summary_text = await ...; print; both appends; the next iteration
AfterSummarize(s, resp) ==
    LET summary_text == ResponseContent(resp)
    IN  LoopHead(Print_([Answered(s, resp) EXCEPT
                             !.summary_text = summary_text,
                             !.all_chapters = Append(@, s.chapter_text),
                             !.all_summaries = Append(@, summary_text)],
                        [section |-> "summary"]),
                 s.i + 1)

\* the exception caught around the loop, and what was written so far
\* assembled and printed
Raise_Recovered(s) ==
    LoopHead([s EXCEPT !.calls[Len(s.calls)].status = "failed"],
             s.chapter_count + 1)

\* the call in flight raises: nothing in run() catches it, so it leaves
\* run() and asyncio.run() and the program ends
Raise(s) ==
    [s EXCEPT !.pc = "failed",
              !.calls[Len(s.calls)].status = "failed"]

----------------------------------------------------------------------------
(* What the environment supplies *)

Titles == {<<"Stars">>}
Themes == {<<"space">>}
Plots == {<<"a", "voyage">>}

\* all lines of at most n characters of alphabet
Lines(alphabet, n) == UNION {[1..k -> alphabet] : k \in 0..n}

\* what the model may answer to a call of each kind: a response with a
\* content attribute, or one without
Responses(kind) ==
    {[content |-> <<kind>>], [finish_reason |-> "stop"]}

Waiting == {"outline", "write", "review", "summarize"}

----------------------------------------------------------------------------
(* Specification of one run *)

ChatIdle ==
    [pc |-> "idle", messages |-> <<>>, requests |-> <<>>,
     response |-> [none |-> TRUE], result |-> Unset]

Init ==
    /\ run = InitRun
    /\ twin = InitRun
    /\ chat = ChatIdle

Start ==
    /\ run.pc = "start"
    /\ \E title \in Titles, theme \in Themes, plot_summary \in Plots,
          chapter_count_str \in Lines(RunAlphabet, MaxLen) :
          /\ ParseChapterCount(chapter_count_str) <= MaxChapters
          /\ run' = Begin(run, title, theme, plot_summary, chapter_count_str)
    /\ UNCHANGED <<twin, chat>>

OutlineReturns ==
    /\ run.pc = "outline"
    /\ \E resp \in Responses("outline") : run' = AfterOutline(run, resp)
    /\ UNCHANGED <<twin, chat>>

WriteReturns ==
    /\ run.pc = "write"
    /\ \E resp \in Responses("write") : run' = AfterWrite(run, resp)
    /\ UNCHANGED <<twin, chat>>

ReviewReturns ==
    /\ run.pc = "review"
    /\ \E resp \in Responses("review") : run' = AfterReview(run, resp)
    /\ UNCHANGED <<twin, chat>>

SummarizeReturns ==
    /\ run.pc = "summarize"
    /\ \E resp \in Responses("summarize") : run' = AfterSummarize(run, resp)
    /\ UNCHANGED <<twin, chat>>

CallFails ==
    /\ run.pc \in Waiting
    /\ run' = Raise(run)
    /\ UNCHANGED <<twin, chat>>

Next ==
    \/ Start
    \/ OutlineReturns
    \/ WriteReturns
    \/ ReviewReturns
    \/ SummarizeReturns
    \/ CallFails

Spec == Init /\ [][Next]_vars

----------------------------------------------------------------------------
(* Specification of two runs side by side: the same input lines and the    *)
(* same answers to every outline, write and summarize call, and answers to *)
(* the review calls chosen for each run on its own.                        *)

TwinStart ==
    /\ run.pc = "start"
    /\ \E title \in Titles, theme \in Themes, plot_summary \in Plots,
          chapter_count_str \in Lines(RunAlphabet, MaxLen) :
          /\ ParseChapterCount(chapter_count_str) <= MaxChapters
          /\ run' = Begin(run, title, theme, plot_summary, chapter_count_str)
          /\ twin' = Begin(twin, title, theme, plot_summary, chapter_count_str)
    /\ UNCHANGED chat

TwinOutlineReturns ==
    /\ run.pc = "outline" /\ twin.pc = "outline"
    /\ \E resp \in Responses("outline") :
          /\ run' = AfterOutline(run, resp)
          /\ twin' = AfterOutline(twin, resp)
    /\ UNCHANGED chat

TwinWriteReturns ==
    /\ run.pc = "write" /\ twin.pc = "write"
    /\ \E resp \in Responses("write") :
          /\ run' = AfterWrite(run, resp)
          /\ twin' = AfterWrite(twin, resp)
    /\ UNCHANGED chat

TwinReviewReturns ==
    /\ run.pc = "review" /\ twin.pc = "review"
    /\ \E resp1 \in Responses("review"), resp2 \in Responses("review") :
          /\ run' = AfterReview(run, resp1)
          /\ twin' = AfterReview(twin, resp2)
    /\ UNCHANGED chat

TwinSummarizeReturns ==
    /\ run.pc = "summarize" /\ twin.pc = "summarize"
    /\ \E resp \in Responses("summarize") :
          /\ run' = AfterSummarize(run, resp)
          /\ twin' = AfterSummarize(twin, resp)
    /\ UNCHANGED chat

NextTwin ==
    \/ TwinStart
    \/ TwinOutlineReturns
    \/ TwinWriteReturns
    \/ TwinReviewReturns
    \/ TwinSummarizeReturns

SpecTwin == Init /\ [][NextTwin]_vars

----------------------------------------------------------------------------
(* Specification of the parse of the chapter count on its own *)

\* chapter_count_str = input(...); try: ... except ValueError: ...
ParseLine ==
    /\ run.pc = "start"
    /\ \E chapter_count_str \in Lines(Alphabet, MaxParseLen) :
          run' = [run EXCEPT !.pc = "parsed",
                             !.chapter_count_str = chapter_count_str,
                             !.chapter_count = ParseChapterCount(chapter_count_str)]
    /\ UNCHANGED <<twin, chat>>

NextParse == ParseLine

SpecParse == Init /\ [][NextParse]_vars

----------------------------------------------------------------------------
(* Specification of call_deepseek_chat on its own *)

Roles == {"system", "user", "assistant"}
Contents == {EmptyText, <<"hi">>}

\* a message dict: "role" and "content" may each be missing
MessageDicts ==
    {[role |-> r, content |-> c] : r \in Roles, c \in Contents}
    \cup {[role |-> r] : r \in Roles}
    \cup {[content |-> c] : c \in Contents}
    \cup {<<>>}

MessageLists(n) == UNION {[1..k -> MessageDicts] : k \in 0..n}

ChatResponses ==
    {[content |-> <<"answer">>], [content |-> EmptyText], [finish_reason |-> "stop"]}

\* call_deepseek_chat(messages), with the response llm gives
call_deepseek_chat(c, msgs, response) ==
    [c EXCEPT !.pc = "returned",
              !.messages = msgs,
              !.requests = Append(@, ChatMessages(msgs)),
              !.response = response,
              !.result = ResponseContent(response)]

ChatCall ==
    /\ chat.pc = "idle"
    /\ \E msgs \in MessageLists(MaxMsgs), response \in ChatResponses :
          chat' = call_deepseek_chat(chat, msgs, response)
    /\ UNCHANGED <<run, twin>>

NextChat == ChatCall

SpecChat == Init /\ [][NextChat]_vars

----------------------------------------------------------------------------
(* Vocabulary of the properties, written without the operators of the     *)
(* model above *)

\* the user prompt of a logged call
UserPrompt(call) == call.request[2].content

\* the calls of s of one kind, in the order they were issued
CallsOfKind(s, kind) == SelectSeq(s.calls, LAMBDA c : c.kind = kind)

\* the texts the answered calls of one kind returned, in order
ReturnedBy(calls, kind) ==
    LET answered == SelectSeq(calls, LAMBDA c : c.kind = kind /\ c.status = "returned")
    IN  [k \in 1..Len(answered) |-> answered[k].returned]

\* texts joined by a newline, built from the right
RECURSIVE NewlineJoined(_)
NewlineJoined(texts) ==
    IF Len(texts) = 0 THEN <<>>
    ELSE IF Len(texts) = 1 THEN texts[1]
    ELSE NewlineJoined(SubSeq(texts, 1, Len(texts) - 1)) \o <<"\n">> \o texts[Len(texts)]

DigitChars == <<"0", "1", "2", "3", "4", "5", "6", "7", "8", "9">>
IsDigit(c) == \E d \in 1..10 : DigitChars[d] = c

\* the value of a sequence of decimal digits, built from the right
RECURSIVE DecimalOf(_)
DecimalOf(digits) ==
    IF Len(digits) = 0 THEN 0
    ELSE 10 * DecimalOf(SubSeq(digits, 1, Len(digits) - 1))
         + ((CHOOSE d \in 1..10 : DigitChars[d] = digits[Len(digits)]) - 1)

NonSpace(line) == SelectSeq(line, LAMBDA c : c # " ")

\* no blank between two non-blank characters
NoInnerSpace(line) ==
    \A j, k, l \in 1..Len(line) :
        j < k /\ k < l /\ line[j] # " " /\ line[l] # " " => line[k] # " "

\* the line is a decimal numeral, possibly signed and padded with blanks
IsNumeral(line) ==
    LET core == NonSpace(line)
        body == IF core # <<>> /\ core[1] \in {"+", "-"}
                THEN SubSeq(core, 2, Len(core)) ELSE core
    IN  /\ NoInnerSpace(line)
        /\ body # <<>>
        /\ \A k \in 1..Len(body) : IsDigit(body[k])

\* the number a numeral denotes
NumeralValue(line) ==
    LET core == NonSpace(line)
    IN  IF core[1] = "-" THEN 0 - DecimalOf(SubSeq(core, 2, Len(core)))
        ELSE IF core[1] = "+" THEN DecimalOf(SubSeq(core, 2, Len(core)))
        ELSE DecimalOf(core)

\* the line is empty or not numeric: it holds no digit at all, or a
\* character that is no digit, sign, digit separator or blank
NonNumeric(line) ==
    \/ \A k \in 1..Len(line) : ~IsDigit(line[k])
    \/ \E k \in 1..Len(line) :
          ~IsDigit(line[k]) /\ line[k] \notin {"+", "-", "_", " "}

\* the kind and chapter index of every call, in order
Shape(calls) == [k \in 1..Len(calls) |-> <<calls[k].kind, calls[k].index>>]

\* outline, then write/review/summarize for chapters 1..n
Cycles(n) ==
    <<  <<"outline", 0>>  >> \o
    [k \in 1..(3 * n) |->
        << CASE k % 3 = 1 -> "write" [] k % 3 = 2 -> "review" [] OTHER -> "summarize",
           ((k - 1) \div 3) + 1 >>]

AllReturned(calls) == \A k \in 1..Len(calls) : calls[k].status = "returned"

----------------------------------------------------------------------------
(* Properties *)

\* C1: the prev_summaries of the writing call of chapter i is the newline
\* join of the summaries the summarize calls of chapters 1..i-1 returned, in
\* that order; for chapter 1 it is the placeholder.
C1_PrevSummaries ==
    \A k \in 1..Len(run.calls) :
        run.calls[k].kind = "write" =>
            LET i == run.calls[k].index
                before == SubSeq(run.calls, 1, k - 1)
                summaries == ReturnedBy(before, "summarize")
            IN  /\ Shape(CallsOfKind([calls |-> before], "summarize"))
                     = [j \in 1..(i - 1) |-> <<"summarize", j>>]
                /\ Len(summaries) = i - 1
                /\ UserPrompt(run.calls[k]).prev_summaries
                     = IF i = 1 THEN <<"(none)">> ELSE NewlineJoined(summaries)

\* the third chapter is being written from an empty and a non-empty summary
C1_Witness ==
    \E k \in 1..Len(run.calls) :
        /\ run.calls[k].kind = "write"
        /\ run.calls[k].index = 3
        /\ UserPrompt(run.calls[k]).prev_summaries = <<"\n", "summarize">>

\* C2: a run on a numeral N >= 0 in which every call returns is the outline
\* call followed by exactly N write/review/summarize cycles, for the
\* chapters 1, 2, ..., N in this order.
C2_ExactlyNCycles ==
    (/\ run.pc = "done"
     /\ IsNumeral(run.chapter_count_str)
     /\ NumeralValue(run.chapter_count_str) >= 0)
    => /\ Shape(run.calls) = Cycles(NumeralValue(run.chapter_count_str))
       /\ AllReturned(run.calls)

\* a run on the line "3" has finished
C2_Witness ==
    /\ run.pc = "done"
    /\ run.chapter_count_str = <<"3">>
    /\ Len(run.calls) = 10

\* C3: on an empty or non-numeric line the chapter count is 5: it is what
\* outline generation is given, and a run that finishes has run five cycles.
C3_DefaultsToFive ==
    (run.pc # "start" /\ NonNumeric(run.chapter_count_str))
    => /\ run.chapter_count = 5
       /\ Len(run.calls) >= 1 => UserPrompt(run.calls[1]).chapter_count = 5
       /\ run.pc = "done" => Shape(run.calls) = Cycles(5)

\* a run on the line "a" has finished its five cycles
C3_Witness ==
    /\ run.pc = "done"
    /\ run.chapter_count_str = <<"a">>
    /\ Len(CallsOfKind(run, "summarize")) = 5

\* C4: when the loop has finished, the novel that is assembled and printed
\* is the newline join of the texts the writing calls of chapters 1..N
\* returned, in the order they were generated, each one kept.
C4_FullNovel ==
    run.pc = "done" =>
        LET chapters == ReturnedBy(run.calls, "write")
        IN  /\ Shape(CallsOfKind(run, "write"))
                 = [j \in 1..Len(chapters) |-> <<"write", j>>]
            /\ Len(chapters) = IF run.chapter_count > 0 THEN run.chapter_count ELSE 0
            /\ run.full_novel = NewlineJoined(chapters)
            /\ \E n \in 1..Len(run.stdout) :
                  run.stdout[n] = [section |-> "novel", text |-> NewlineJoined(chapters)]

\* a finished novel in which the same chapter text appears twice, around an
\* empty chapter
C4_Witness ==
    /\ run.pc = "done"
    /\ run.full_novel = <<"write", "\n", "\n", "write">>

\* what a run sent: kind, chapter and request of every call
Sent(s) ==
    [k \in 1..Len(s.calls) |->
        <<s.calls[k].kind, s.calls[k].index, s.calls[k].request>>]

\* C5: two runs on the same input lines, with the same answers to every
\* outline, write and summarize call and any answers to the review calls,
\* send the same prompts and assemble and print the same novel.
C5_ReviewNotFedBack ==
    /\ Sent(run) = Sent(twin)
    /\ run.full_novel = twin.full_novel
    /\ run.stdout = twin.stdout

\* two finished runs of three chapters or more whose reviews differed
C5_Witness ==
    /\ run.pc = "done" /\ twin.pc = "done"
    /\ Len(run.calls) >= 10
    /\ run.review_text = <<"review">>
    /\ twin.review_text = <<>>

\* C6: a call that fails is the last call of the run: none follows it, it is
\* not issued again, the run is over and no novel has been printed.
C6_FailureAborts ==
    \A k \in 1..Len(run.calls) :
        run.calls[k].status = "failed" =>
            /\ k = Len(run.calls)
            /\ run.pc = "failed"
            /\ run.full_novel = <<"<unset>">>
            /\ \A n \in 1..Len(run.stdout) : run.stdout[n].section # "novel"

\* the review of the second chapter failed, after a first chapter was
\* completed
C6_Witness ==
    /\ run.pc = "failed"
    /\ Len(run.all_chapters) = 1
    /\ run.calls[Len(run.calls)].kind = "review"
    /\ run.calls[Len(run.calls)].status = "failed"

\* C7: once the chapter-count line is parsed, the chapter count is >= 0.
C7_CountNonNegative ==
    run.pc # "start" => run.chapter_count >= 0

\* C8: call_deepseek_chat sends one request, with one chat message per
\* message in the same order, a system message for role "system" and a user
\* message for any other, and returns the content of the response, or the
\* empty string when the response has none.
C8_ChatCall ==
    chat.pc = "returned" =>
        /\ Len(chat.requests) = 1
        /\ Len(chat.requests[1]) = Len(chat.messages)
        /\ \A k \in 1..Len(chat.messages) :
              LET m == chat.messages[k]
                  sent == chat.requests[1][k]
              IN  /\ sent.type = IF "role" \in DOMAIN m /\ m.role = "system"
                                 THEN "SystemMessage" ELSE "HumanMessage"
                  /\ "content" \in DOMAIN m => sent.content = m.content
        /\ chat.result = IF "content" \in DOMAIN chat.response
                         THEN chat.response.content ELSE <<>>

\* an assistant message before a system message, answered without content
C8_Witness ==
    /\ chat.pc = "returned"
    /\ chat.messages = << [role |-> "assistant", content |-> <<"hi">>],
                          [role |-> "system", content |-> <<>>] >>
    /\ "content" \notin DOMAIN chat.response
    /\ chat.result = <<>>

\* C9: at most one call is in flight, and it is the latest; every earlier
\* call has returned; the calls are the outline call followed by write(i),
\* review(i), summarize(i) for i = 1, 2, ...; and when write(i+1) is issued
\* the summary summarize(i) returned is the i-th entry of all_summaries.
C9_Sequential ==
    /\ Cardinality({k \in 1..Len(run.calls) : run.calls[k].status = "pending"}) <= 1
    /\ \A k \in 1..(Len(run.calls) - 1) : run.calls[k].status = "returned"
    /\ Shape(run.calls) = SubSeq(Cycles(Len(run.calls)), 1, Len(run.calls))
    /\ \A k \in 1..Len(run.calls) :
          (run.calls[k].kind = "write" /\ run.calls[k].index > 1) =>
              LET i == run.calls[k].index - 1
              IN  /\ run.calls[k - 1].kind = "summarize"
                  /\ run.calls[k - 1].index = i
                  /\ run.calls[k - 1].status = "returned"
                  /\ Len(run.all_summaries) >= i
                  /\ run.all_summaries[i] = run.calls[k - 1].returned

\* the second chapter's writing call is in flight
C9_Witness ==
    /\ Len(run.calls) = 5
    /\ run.calls[5].kind = "write"
    /\ run.calls[5].index = 2
    /\ run.calls[5].status = "pending"

\* C10: a run issues one outline call, before every other call; every
\* writing call is given the text that call returned, and outline holds
\* that text from then on.
C10_OutlineOnce ==
    /\ run.pc # "start" =>
          /\ run.calls[1].kind = "outline"
          /\ Len(CallsOfKind(run, "outline")) = 1
    /\ \A k \in 1..Len(run.calls) :
          run.calls[k].kind = "write" =>
              /\ run.calls[1].status = "returned"
              /\ UserPrompt(run.calls[k]).outline = run.calls[1].returned
    /\ run.pc \in {"write", "review", "summarize", "done"} =>
          run.outline = run.calls[1].returned

\* the third chapter is written from the outline the outline call returned
C10_Witness ==
    \E k \in 1..Len(run.calls) :
        /\ run.calls[k].kind = "write"
        /\ run.calls[k].index = 3
        /\ run.calls[1].returned = <<"outline">>
        /\ UserPrompt(run.calls[k]).outline = <<"outline">>

====
